---- MODULE Spec2Model ----
(***************************************************************************)
(* Ramp-start ("pivot") searches of the findramp repository.               *)
(*                                                                         *)
(* Five programs and one function on its own are modelled, selected by    *)
(* the variable prog:                                                      *)
(*   "pivot_ge"    src/src/find_pivot.cc, first program  (findRampPivot,   *)
(*                 >= test)                                                *)
(*   "pivot_dupes" src/src/find_pivot.cc, second program                   *)
(*                 (findRampPivotWithDupes, skipRepeating)                 *)
(*   "pivot_gt"    src/unnamed/part_000 (FindRampPivot, > test)            *)
(*   "lwm"         src/findRamp.cpp, first program (low-water-mark search) *)
(*   "compval"     src/findRamp.cpp, second program (compVal search)       *)
(*   "skip_repeating"  skipRepeating of src/src/find_pivot.cc, called as   *)
(*                 its signature reads (container, size, &idx, delta) with *)
(*                 delta = -1 and any index of the array                   *)
(*                                                                         *)
(* Every recursion in the sources is a tail call, so one invocation of a   *)
(* locator is one step of the state machine and its arguments are the      *)
(* state variables.                                                        *)
(*                                                                         *)
(* UINT is a 32-bit unsigned integer.  TLC integers are 32-bit signed, so  *)
(* a UINT value u >= 2^31 is carried as u - 2^32 (same bit pattern): ~0 is *)
(* -1, and sums and differences of small values wrap exactly as the        *)
(* unsigned arithmetic of the code does.  Comparison, remainder and shift  *)
(* are the unsigned ones (ULt, UMod, UShr1).                               *)
(*                                                                         *)
(* spin flips on every pass of a loop whose pass may leave every program   *)
(* variable as it was (the loop of findRampStart that skips repeated       *)
(* entries, the do-while loop of findRecurse), so that such a pass is a    *)
(* step of the state machine and not a stuttering step.                    *)
(*                                                                         *)
(* History variables: calls counts the locator invocations, iters the      *)
(* passes of skipRepeating's loop, oob records that a container read left  *)
(* the array, depthGuard that a locator invocation has evaluated           *)
(* assert( depth < MAX_DEPTH ).  skipStartIdx is startIdx of skipRepeating *)
(* (generateRamp has a parameter of that name); for the pivot locators,    *)
(* which take no depth argument, depth is the nesting of their calls.      *)
(***************************************************************************)
EXTENDS Integers, Sequences, FiniteSets, TLC

(***************************************************************************)
(* Bounds of the model.                                                    *)
(***************************************************************************)
MaxLen == 5
MaxVal == 3
MaxRampLen == 17
MaxBase == 1
MaxTries == 12
MaxIters == 8

(***************************************************************************)
(* Program constants.                                                      *)
(***************************************************************************)
INCREMENT_BOUND == 4
MAX_DEPTH == 16777216
RANGE == 64

(***************************************************************************)
(* 32-bit unsigned arithmetic on the two's-complement representatives.     *)
(***************************************************************************)
\* the sentinel ~0
NotFound == 0 - 1

\* a < b on UINT
ULt(a, b) == IF (a >= 0) = (b >= 0) THEN a < b ELSE a >= 0

\* 2^32 mod n, computed without leaving 32 bits
TwoPow32Mod(n) == ((65536 % n) * (65536 % n)) % n

\* a % n of the code for a UINT a: the remainder of the unsigned value
UMod(a, n) == IF a >= 0 THEN a % n ELSE ((a % n) + TwoPow32Mod(n)) % n

\* a >> 1 on UINT
UShr1(a) == IF a >= 0 THEN a \div 2 ELSE 2147483647 + ((a \div 2) + 1)

\* (i - d) % n of the code, the ring index d places before i: the
\* difference wraps modulo 2^32 before the remainder is taken
BackwardIdx(i, d, n) == UMod(i - d, n)

(***************************************************************************)
(* State.                                                                  *)
(***************************************************************************)
VARIABLES prog, container, size, pc, lowIdx, highIdx, pivot, tries, calls,
          depth, result, oob, subsectionSize, idx, compVal, lwm, lwmIdx,
          candidateIdx, spin, skipStartIdx, wrapped, delta, iters,
          depthGuard

vars == <<prog, container, size, pc, lowIdx, highIdx, pivot, tries, calls,
          depth, result, oob, subsectionSize, idx, compVal, lwm, lwmIdx,
          candidateIdx, spin, skipStartIdx, wrapped, delta, iters,
          depthGuard>>

PivotProgs == {"pivot_ge", "pivot_dupes", "pivot_gt"}

Progs == PivotProgs \cup {"lwm", "compval", "skip_repeating"}

InBounds(i) == i >= 0 /\ i < size

(***************************************************************************)
(* Inputs.                                                                 *)
(***************************************************************************)
SizeOf(c) == Cardinality(DOMAIN c)

\* number of seams: indices i with c[i] > c[(i + 1) mod n]
Seams(c) == {i \in DOMAIN c : c[i] > c[(i + 1) % SizeOf(c)]}

\* a rotated ascending run, duplicates allowed: at most one seam on the ring
ValidSeqs == UNION {{c \in [0 .. n - 1 -> 0 .. MaxVal] : Cardinality(Seams(c)) <= 1}
                     : n \in 1 .. MaxLen}

\* what GenerateRamp writes with dupes = false, on top of a base value
RampFrom(n, startIdx, base) == [i \in 0 .. n - 1 |-> ((i - startIdx) % n) + base]

GenerateRamp(n, startIdx) == RampFrom(n, startIdx, 0)

Ramps == {GenerateRamp(n, s) : n \in 1 .. MaxRampLen, s \in 0 .. MaxRampLen - 1}

ShiftedRamps == {RampFrom(n, s, b) : n \in 1 .. MaxRampLen,
                                     s \in 0 .. MaxRampLen - 1, b \in 0 .. MaxBase}

\* what generateRamp of the compVal program writes: 0 at the start index,
\* then increments of rand() % INCREMENT_BOUND
Steps(c) == {(c[(i + 1) % SizeOf(c)] - c[i]) : i \in DOMAIN c \ Seams(c)}

GenRamps == {c \in ValidSeqs : (\E i \in DOMAIN c : c[i] = 0)
                               /\ \A d \in Steps(c) : d < INCREMENT_BOUND}

\* every array of 1 .. MaxLen values: skipRepeating asks nothing of its
\* container
AllSeqs == UNION {[0 .. n - 1 -> 0 .. MaxVal] : n \in 1 .. MaxLen}

Inputs(p) == CASE p \in PivotProgs -> ValidSeqs \cup ShiftedRamps
               [] p = "lwm" -> Ramps
               [] p = "compval" -> GenRamps
               [] p = "skip_repeating" -> AllSeqs

Init ==
  /\ prog \in Progs
  /\ container \in Inputs(prog)
  /\ size = SizeOf(container)
  /\ pc = "start"
  /\ lowIdx = 0 /\ highIdx = 0 /\ pivot = 0
  /\ tries = 0 /\ calls = 0 /\ depth = 0
  /\ result = 0 /\ oob = FALSE
  /\ subsectionSize = 0 /\ idx = 0 /\ compVal = 0
  /\ lwm = 0 /\ lwmIdx = 0 /\ candidateIdx = 0
  /\ spin = 0
  /\ skipStartIdx = 0 /\ wrapped = FALSE /\ delta = 0 /\ iters = 0
  /\ depthGuard = FALSE

(***************************************************************************)
(* Pivot programs: findRampStart, findRampPivot, findRampPivotWithDupes.   *)
(***************************************************************************)
PivotUnchanged == UNCHANGED <<subsectionSize, idx, compVal, lwm, lwmIdx, candidateIdx>>

Const == UNCHANGED <<prog, container, size>>

SkipUnchanged == UNCHANGED <<skipStartIdx, wrapped, delta, iters>>

\* the edge-case test of findRampStart: the array is taken to be unrotated
NotRotatedNever(c) == FALSE

NotRotated(c) == c[0] = 0

\* findRampStart up to the call of the locator
FindRampStart ==
  /\ pc = "start" /\ prog \in PivotProgs
  /\ IF NotRotated(container)
     THEN /\ pc' = "done" /\ result' = 0
          /\ UNCHANGED <<lowIdx, highIdx>>
     ELSE /\ pc' = "locate" /\ lowIdx' = 0 /\ highIdx' = size - 1
          /\ UNCHANGED result
  /\ UNCHANGED <<pivot, tries, calls, depth, oob>>
  /\ PivotUnchanged /\ Const /\ SkipUnchanged /\ UNCHANGED spin
  /\ UNCHANGED depthGuard

\* (*tries)++ at the head of every locator invocation
CountTryAfterChecks(t, low, high) == IF high = low \/ ULt(high, low) THEN t ELSE t + 1

CountTry(t, low, high) == t + 1

MidIdxLow(low, high) == low

MidIdx(low, high) == UShr1(low + high)

\* which half the plain locators descend into
SearchLeftInverted(p, lowVal, midVal) == IF p = "pivot_ge" THEN lowVal <= midVal ELSE lowVal < midVal

SearchLeft(p, lowVal, midVal) == IF p = "pivot_ge" THEN lowVal >= midVal ELSE lowVal > midVal

\* the locator returns p to findRampStart
Return(p) ==
  /\ pivot' = p /\ pc' = "skip"
  /\ UNCHANGED <<lowIdx, highIdx, depth, oob>>

\* the locator calls itself on the window (low, high)
Recurse(low, high) ==
  /\ lowIdx' = low /\ highIdx' = high /\ depth' = depth + 1
  /\ UNCHANGED <<pc, pivot, oob>>

\* a container read outside [0, size): the process faults, or the read
\* yields whatever the memory holds and the locator ends with any candidate
UndefinedRead ==
  /\ oob' = TRUE
  /\ \/ pc' = "fault" /\ UNCHANGED pivot
     \/ \E p \in (0 .. size - 1) \cup {NotFound} : pivot' = p /\ pc' = "skip"
  /\ UNCHANGED <<lowIdx, highIdx, depth>>

\* the window's reads: container[mid], container[mid + 1], container[mid - 1]
\* and container[low] all lie in [0, size)
WindowReadable(low, mid, high) ==
  /\ InBounds(low) /\ InBounds(mid)
  /\ (ULt(mid, high) => InBounds(mid + 1))

\* one invocation of findRampPivot (>=) / FindRampPivot (>)
FindRampPivot ==
  /\ pc = "locate" /\ prog \in {"pivot_ge", "pivot_gt"}
  /\ tries < MaxTries
  /\ tries' = CountTry(tries, lowIdx, highIdx) /\ calls' = calls + 1
  /\ IF highIdx = lowIdx THEN Return(lowIdx)
     ELSE IF ULt(highIdx, lowIdx) THEN Return(NotFound)
     ELSE LET midIdx == MidIdx(lowIdx, highIdx) IN
       IF ~WindowReadable(lowIdx, midIdx, highIdx) THEN UndefinedRead
       ELSE IF ULt(midIdx, highIdx) /\ container[midIdx] > container[midIdx + 1]
         THEN Return(midIdx)
       ELSE IF ULt(lowIdx, midIdx) /\ container[midIdx] < container[midIdx - 1]
         THEN Return(midIdx - 1)
       ELSE IF SearchLeft(prog, container[lowIdx], container[midIdx])
         THEN Recurse(lowIdx, midIdx - 1)
       ELSE Recurse(midIdx + 1, highIdx)
  /\ UNCHANGED result
  /\ PivotUnchanged /\ Const /\ SkipUnchanged /\ UNCHANGED spin
  /\ UNCHANGED depthGuard

\* the two skipRepeating calls of findRampPivotWithDupes pass &lowIdx (resp.
\* &midIdx) in the place of size, -1 in the place of the index pointer and
\* size in the place of delta: skipRepeating dereferences the pointer value
\* -1, an address outside every mapping, and the process faults
SkipRepeatingCall ==
  /\ pc' = "fault"
  /\ UNCHANGED <<lowIdx, highIdx, depth, pivot, oob>>

\* one invocation of findRampPivotWithDupes
FindRampPivotWithDupes ==
  /\ pc = "locate" /\ prog = "pivot_dupes"
  /\ tries < MaxTries
  /\ tries' = CountTry(tries, lowIdx, highIdx) /\ calls' = calls + 1
  /\ IF highIdx = lowIdx THEN Return(lowIdx)
     ELSE IF ULt(highIdx, lowIdx) THEN Return(NotFound)
     ELSE LET midIdx == MidIdx(lowIdx, highIdx) IN
       IF ~WindowReadable(lowIdx, midIdx, highIdx) THEN UndefinedRead
       ELSE IF ULt(midIdx, highIdx) /\ container[midIdx] > container[midIdx + 1]
         THEN Return(midIdx)
       ELSE IF ULt(lowIdx, midIdx) /\ container[midIdx] < container[midIdx - 1]
         THEN Return(midIdx - 1)
       ELSE IF container[lowIdx] = container[midIdx]
         THEN IF ~InBounds(highIdx) THEN UndefinedRead
              ELSE IF container[highIdx] # container[midIdx]
              THEN SkipRepeatingCall
              ELSE Recurse(lowIdx, midIdx - 1)
       ELSE IF container[lowIdx] > container[midIdx]
         THEN Recurse(lowIdx, midIdx - 1)
       ELSE Recurse(midIdx + 1, highIdx)
  /\ UNCHANGED result
  /\ PivotUnchanged /\ Const /\ SkipUnchanged /\ UNCHANGED spin
  /\ UNCHANGED depthGuard

\* findRampStart after the locator: one pass of the loop that skips repeated
\* entries, or the exit of the loop with the final advance and the return
NextEntry(p) == UMod(p + 1, size)

SkipRepeatedEntries ==
  /\ pc = "skip" /\ prog \in PivotProgs
  /\ IF InBounds(pivot)
     THEN /\ IF container[NextEntry(pivot)] = container[pivot]
             THEN /\ pivot' = NextEntry(pivot)
                  /\ spin' = 1 - spin
                  /\ UNCHANGED <<pc, result>>
             ELSE /\ result' = IF pivot # NotFound THEN NextEntry(pivot) ELSE pivot
                  /\ pc' = "done"
                  /\ UNCHANGED <<pivot, spin>>
          /\ UNCHANGED oob
     ELSE \* container[pivot] is read outside the array
          /\ oob' = TRUE
          /\ \/ pc' = "fault" /\ UNCHANGED <<pivot, result, spin>>
             \/ /\ pivot' = NextEntry(pivot)
                /\ spin' = 1 - spin
                /\ UNCHANGED <<pc, result>>
             \/ /\ result' = IF pivot # NotFound THEN NextEntry(pivot) ELSE pivot
                /\ pc' = "done"
                /\ UNCHANGED <<pivot, spin>>
  /\ UNCHANGED <<lowIdx, highIdx, tries, calls, depth>>
  /\ PivotUnchanged /\ Const /\ SkipUnchanged
  /\ UNCHANGED depthGuard

(***************************************************************************)
(* findRamp.cpp, first program: low-water-mark search.                     *)
(***************************************************************************)
PivotVarsUnchanged == UNCHANGED <<lowIdx, highIdx, pivot>>

\* main's call findRampStart(container, containerSize, containerSize >> 1,
\* &tries) up to the first call of findRecurse
FindRampStartLwm ==
  /\ pc = "start" /\ prog = "lwm"
  /\ lwm' = NotFound /\ lwmIdx' = 0
  /\ subsectionSize' = size \div 2
  /\ idx' = size \div 2
  /\ depth' = 0
  /\ pc' = "recurse"
  /\ UNCHANGED <<tries, calls, result, oob, compVal, candidateIdx>>
  /\ PivotVarsUnchanged /\ Const /\ SkipUnchanged /\ UNCHANGED spin
  /\ UNCHANGED depthGuard

\* the guard of the loop that is meant to skip duplicates: startIdx is set
\* to valL right before the test, so the loop body never runs
SkipDupesEntered(valL, valR) == LET startIdx == valL IN valL = valR /\ valL # startIdx

\* the low water mark after the three updates of one findRecurse invocation,
\* as the pair <<lwm, lwmIdx>>
LowWater(mark, markIdx, valL, idxL, valR, idxR, i) ==
  LET m1 == IF ULt(valL, mark) THEN <<valL, idxL>> ELSE <<mark, markIdx>>
      m2 == IF ULt(valR, m1[1]) THEN <<valR, idxR>> ELSE m1
  IN  IF ULt(i, m2[1]) THEN <<container[i], i>> ELSE m2

\* one invocation of findRecurse (low-water-mark program)
FindRecurseLwm ==
  /\ pc = "recurse" /\ prog = "lwm"
  /\ tries < MaxTries
  /\ tries' = CountTry(tries, 0, 0) /\ calls' = calls + 1
  /\ IF ~(depth < MAX_DEPTH)
     THEN /\ pc' = "fault"
          /\ UNCHANGED <<subsectionSize, idx, depth, lwm, lwmIdx, result>>
     ELSE LET half == (subsectionSize + 1) \div 2
              idxL == BackwardIdx(idx, half, size)
              idxR == UMod(idx + half, size)
              valL == container[idxL]
              valR == container[idxR]
              m    == LowWater(lwm, lwmIdx, valL, idxL, valR, idxR, idx)
          IN  /\ ~SkipDupesEntered(valL, valR)
              /\ lwm' = m[1] /\ lwmIdx' = m[2]
              /\ IF subsectionSize # 0
                 THEN /\ subsectionSize' = subsectionSize \div 2
                      /\ idx' = m[2]
                      /\ depth' = depth + 1
                      /\ UNCHANGED <<pc, result>>
                 ELSE /\ result' = m[2]
                      /\ pc' = "done"
                      /\ UNCHANGED <<subsectionSize, idx, depth>>
  /\ UNCHANGED <<oob, compVal, candidateIdx>>
  /\ PivotVarsUnchanged /\ Const /\ SkipUnchanged /\ UNCHANGED spin
  /\ depthGuard' = TRUE

(***************************************************************************)
(* findRamp.cpp, second program: compVal-guided search.                    *)
(***************************************************************************)
\* main's call findRampStart(container, containerSize, containerSize >> 1,
\* &tries) up to the first call of findRecurse
FindRampStartCmp ==
  /\ pc = "start" /\ prog = "compval"
  /\ subsectionSize' = size
  /\ idx' = size \div 2
  /\ compVal' = RANGE \div 2
  /\ depth' = 0
  /\ pc' = "recurse"
  /\ UNCHANGED <<tries, calls, result, oob, lwm, lwmIdx, candidateIdx>>
  /\ PivotVarsUnchanged /\ Const /\ SkipUnchanged /\ UNCHANGED spin
  /\ UNCHANGED depthGuard

\* the step of the compVal search: a quarter of the subsection, at least 1
StepOf(sub) == IF sub \div 4 # 0 THEN sub \div 4 ELSE 1

\* findRecurse calls itself at index i with comparison value v
RecurseCmp(i, v) ==
  /\ subsectionSize' = subsectionSize \div 2
  /\ idx' = i /\ compVal' = v
  /\ depth' = depth + 1
  /\ pc' = "recurse"
  /\ UNCHANGED result

\* one invocation of findRecurse (compVal program), up to its recursive
\* call, its return, or the entry of the do-while loop that walks past a run
\* of equal values
FindRecurseCmp ==
  /\ pc = "recurse" /\ prog = "compval"
  /\ tries < MaxTries
  /\ tries' = CountTry(tries, 0, 0) /\ calls' = calls + 1
  /\ IF ~(depth < MAX_DEPTH)
     THEN /\ pc' = "fault"
          /\ UNCHANGED <<subsectionSize, idx, compVal, depth, result, candidateIdx>>
     ELSE LET idx1 == (idx + 1) % size IN
       IF container[idx1] < container[idx]
       THEN /\ result' = idx1 /\ pc' = "done"
            /\ UNCHANGED <<subsectionSize, idx, compVal, depth, candidateIdx>>
       ELSE IF ULt(container[idx], compVal)
       THEN /\ RecurseCmp(BackwardIdx(idx, StepOf(subsectionSize), size), container[idx])
            /\ UNCHANGED candidateIdx
       ELSE IF ULt(compVal, container[idx])
       THEN /\ RecurseCmp(UMod(idx + StepOf(subsectionSize), size), container[idx1])
            /\ UNCHANGED candidateIdx
       ELSE /\ candidateIdx' = idx1
            /\ pc' = "run"
            /\ UNCHANGED <<subsectionSize, idx, compVal, depth, result>>
  /\ UNCHANGED <<oob, lwm, lwmIdx>>
  /\ PivotVarsUnchanged /\ Const /\ SkipUnchanged /\ UNCHANGED spin
  /\ depthGuard' = TRUE

\* one pass of the do-while loop of findRecurse: advance candidateIdx, then
\* either stay in the loop or leave it into the recursive call
SkipRun ==
  /\ pc = "run" /\ prog = "compval"
  /\ LET idx1 == (idx + 1) % size
         cand == UMod(candidateIdx + 1, size)
     IN  IF container[cand] = container[idx1]
         THEN /\ candidateIdx' = cand
              /\ spin' = 1 - spin
              /\ UNCHANGED <<subsectionSize, idx, compVal, depth, pc, result>>
         ELSE /\ candidateIdx' = cand
              /\ RecurseCmp(cand, container[idx1])
              /\ UNCHANGED spin
  /\ UNCHANGED <<tries, calls, oob, lwm, lwmIdx>>
  /\ PivotVarsUnchanged /\ Const /\ SkipUnchanged
  /\ UNCHANGED depthGuard

(***************************************************************************)
(* skipRepeating of src/src/find_pivot.cc.                                 *)
(***************************************************************************)
\* a call skipRepeating(container, size, &idx, -1) with idx any index of the
\* array, up to the first test of the while loop
SkipRepeatingEntry ==
  /\ pc = "start" /\ prog = "skip_repeating"
  /\ \E s \in 0 .. size - 1 : idx' = s /\ skipStartIdx' = s
  /\ delta' = 0 - 1
  /\ wrapped' = FALSE
  /\ iters' = 0
  /\ pc' = "loop"
  /\ UNCHANGED <<tries, calls, depth, result, oob, subsectionSize, compVal,
                 lwm, lwmIdx, candidateIdx, spin>>
  /\ PivotVarsUnchanged /\ Const
  /\ UNCHANGED depthGuard

\* the index the loop test compares with: ( (*idx) + delta ) % size, the sum
\* and the remainder taken in UINT
Neighbour(i) == UMod(i + delta, size)

\* the move of *idx by delta, in the loop body and after the loop
Bump(i) == IF i = 0 THEN size + delta ELSE i + delta

\* the test that breaks out of the loop after a full traversal
BackAtStartNever(i) == FALSE

BackAtStart(i) == i = skipStartIdx

\* one test of the while loop of skipRepeating: a pass of the body, or the
\* exit (by the test or by the break) followed by the last bump and the
\* return
SkipRepeating ==
  /\ pc = "loop" /\ prog = "skip_repeating"
  /\ iters < MaxIters
  /\ IF container[idx] = container[Neighbour(idx)]
     THEN /\ iters' = iters + 1
          /\ IF BackAtStart(Bump(idx))
             THEN /\ idx' = Bump(Bump(idx))
                  /\ wrapped' = (wrapped \/ idx = 0 \/ Bump(idx) = 0)
                  /\ pc' = "done"
             ELSE /\ idx' = Bump(idx)
                  /\ wrapped' = (wrapped \/ idx = 0)
                  /\ pc' = "loop"
     ELSE /\ idx' = Bump(idx)
          /\ wrapped' = (wrapped \/ idx = 0)
          /\ pc' = "done"
          /\ UNCHANGED iters
  /\ UNCHANGED <<skipStartIdx, delta>>
  /\ UNCHANGED <<tries, calls, depth, result, oob, subsectionSize, compVal,
                 lwm, lwmIdx, candidateIdx, spin>>
  /\ PivotVarsUnchanged /\ Const
  /\ UNCHANGED depthGuard

Next ==
  \/ FindRampStart
  \/ FindRampPivot
  \/ FindRampPivotWithDupes
  \/ SkipRepeatedEntries
  \/ FindRampStartLwm
  \/ FindRecurseLwm
  \/ FindRampStartCmp
  \/ FindRecurseCmp
  \/ SkipRun
  \/ SkipRepeatingEntry
  \/ SkipRepeating

Spec == Init /\ [][Next]_vars

FairSpec == Spec /\ WF_vars(Next)

(***************************************************************************)
(* Vocabulary of the properties.                                           *)
(***************************************************************************)
\* the index where the ascending run begins: just after the seam, or 0 when
\* there is no seam
RampStartOf(c) == IF Seams(c) = {} THEN 0
                  ELSE ((CHOOSE i \in Seams(c) : TRUE) + 1) % SizeOf(c)

IsRamp(c) == \E s \in DOMAIN c : c = GenerateRamp(SizeOf(c), s)

DupFree(c) == \A i, j \in DOMAIN c : i # j => c[i] # c[j]

AllEqual(c) == \A i \in DOMAIN c : c[i] = c[0]

\* the array read from index 0 upward is ascending: rotation offset k = 0
Unrotated(c) == \A i \in DOMAIN c : i + 1 < SizeOf(c) => c[i] <= c[i + 1]

CeilLog2(n) == CHOOSE k \in 0 .. 31 : 2 ^ k >= n /\ \A j \in 0 .. k - 1 : 2 ^ j < n

Ended == pc \in {"done", "fault"}

(***************************************************************************)
(* C1: on every rotated ascending run (duplicates allowed) the             *)
(* duplicate-tolerant findRampStart returns the index where the ascending  *)
(* run begins, i.e. the first occurrence of the minimum after the seam.    *)
(***************************************************************************)
C1_ReturnsRampStart ==
  (prog = "pivot_dupes" /\ Ended)
    => (pc = "done" /\ result = RampStartOf(container))

(***************************************************************************)
(* C2: on the duplicate-free ramp GenerateRamp writes, FindRampStart of    *)
(* the > locator and of the >= locator never faults and returns an index   *)
(* that is not the sentinel, holds the value 0 and equals startIdx.        *)
(***************************************************************************)
C2_RampStartFound ==
  (prog \in {"pivot_gt", "pivot_ge"} /\ IsRamp(container))
    => /\ pc # "fault" /\ ~oob
       /\ pc = "done" => /\ result # NotFound
                         /\ result \in DOMAIN container
                         /\ container[result] = 0
                         /\ container = GenerateRamp(size, result)

C2_Witness ==
  /\ prog = "pivot_ge" /\ IsRamp(container) /\ size >= 5
  /\ pc = "done" /\ tries >= 3 /\ result # 0
  /\ container[result] = 0

(***************************************************************************)
(* C3: every call of the duplicate-tolerant findRampStart on a valid       *)
(* sequence terminates: the recursion and the loop that skips repeated     *)
(* entries reach the return.                                               *)
(***************************************************************************)
C3_Terminates == (prog = "pivot_dupes") => <>(pc = "done")

(***************************************************************************)
(* C4: the value findRampStart returns on a valid sequence is an index in  *)
(* [0, size), never the sentinel ~0.                                       *)
(***************************************************************************)
C4_ReturnsValidIndex ==
  (prog \in PivotProgs /\ pc = "done") => (result >= 0 /\ result < size)

C6_AllEqualReturnsZero ==
  (prog \in PivotProgs /\ AllEqual(container)) => <>(pc = "done" /\ result = 0)

(***************************************************************************)
(* C7: on a duplicate-free rotated ascending sequence the trial count of   *)
(* FindRampStart (> locator) is at most ceil(log2(size)) + 1.              *)
(***************************************************************************)
C7_TrialBound ==
  (prog = "pivot_gt" /\ DupFree(container)) => tries <= CeilLog2(size) + 1

C7_Witness ==
  /\ prog = "pivot_gt" /\ DupFree(container) /\ size >= 16
  /\ pc = "done" /\ tries = CeilLog2(size) + 1

(***************************************************************************)
(* C8: the trial counter grows by exactly one with every locator           *)
(* invocation, base-case and NotFound invocations included, and by nothing *)
(* else; it never decreases.                                               *)
(***************************************************************************)
C8_OneTrialPerInvocation ==
  [][tries' - tries = calls' - calls /\ tries' >= tries]_vars

C8_Witness ==
  /\ prog = "pivot_ge" /\ pc = "skip" /\ ~oob
  /\ ULt(highIdx, lowIdx) /\ pivot = NotFound
  /\ tries >= 2 /\ tries = calls

(***************************************************************************)
(* C9: on every ramp generateRamp writes, the low-water-mark findRampStart *)
(* called with startIdx = size >> 1 returns the index of the ramp start.   *)
(***************************************************************************)
C9_LwmFindsRampStart ==
  (prog = "lwm" /\ pc = "done") => container = GenerateRamp(size, result)

(***************************************************************************)
(* C10: on every ramp generateRamp of the compVal program can write,       *)
(* findRampStart terminates and returns the ramp start, the index whose    *)
(* value is lower than the value one position before it on the ring.       *)
(***************************************************************************)
C10_CompValFindsRampStart ==
  (prog = "compval")
    => <>(/\ prog = "compval" /\ pc = "done"
          /\ container[result] < container[(result - 1) % size])

(***************************************************************************)
(* C11: every recursive call findRampPivotWithDupes makes from a window    *)
(* with low < high gets a strictly smaller window inside the caller's:     *)
(* low <= low', high' <= high and high' - low' < high - low (unsigned).    *)
(***************************************************************************)
C11_WindowShrinks ==
  [][(/\ prog = "pivot_dupes" /\ pc = "locate" /\ depth' = depth + 1
      /\ ULt(lowIdx, highIdx))
       => /\ ~ULt(lowIdx', lowIdx)
          /\ ~ULt(highIdx, highIdx')
          /\ ULt(highIdx' - lowIdx', highIdx - lowIdx)]_vars

(***************************************************************************)
(* C12: from the window (0, size - 1) of findRampStart on a valid          *)
(* sequence, findRampPivotWithDupes is never entered with high < low and   *)
(* never hands the sentinel ~0 back to findRampStart.                      *)
(***************************************************************************)
C12_NeverInverted ==
  (prog = "pivot_dupes")
    => /\ (pc = "locate" => ~ULt(highIdx, lowIdx))
       /\ (pc = "skip" /\ ~oob => pivot # NotFound)

(***************************************************************************)
(* C13: whenever the locator has handed the sentinel ~0 to findRampStart,  *)
(* findRampStart returns the sentinel: the loop that skips repeated        *)
(* entries does not move it and the final advance leaves it alone.         *)
(***************************************************************************)
C13_SentinelPropagates ==
  [][(prog \in PivotProgs /\ pc = "skip" /\ pivot = NotFound /\ ~oob)
       => (pc' = "done" /\ pivot' = NotFound /\ result' = NotFound)]_vars

(***************************************************************************)
(* C14: the ring index the code computes for a backward offset d           *)
(* (1 <= d <= size) from an index in [0, size) is the mathematical         *)
(* (idx - d) mod size: idxL of the low-water-mark findRecurse, the         *)
(* downward step of the compVal findRecurse, and the neighbour index of    *)
(* skipRepeating with delta = -1 (one step back from 0 is size - 1).       *)
(***************************************************************************)
C14_TrueModulo ==
  /\ (prog = "lwm" /\ pc = "recurse" /\ depth < MAX_DEPTH)
       => LET half == (subsectionSize + 1) \div 2
          IN  BackwardIdx(idx, half, size) = (idx - half) % size
  /\ (/\ prog = "compval" /\ pc = "recurse" /\ depth < MAX_DEPTH
      /\ ~(container[(idx + 1) % size] < container[idx])
      /\ ULt(container[idx], compVal))
       => BackwardIdx(idx, StepOf(subsectionSize), size)
            = (idx - StepOf(subsectionSize)) % size
  /\ (prog = "skip_repeating" /\ pc = "loop")
       => Neighbour(idx) = (idx - 1) % size

\* the first index met walking backward around the ring from s whose value
\* differs from c[s] (c holds at least two distinct values)
FirstDifferentBack(c, s) ==
  LET n == SizeOf(c)
      k == CHOOSE k \in 1 .. n - 1 :
             /\ c[(s - k) % n] # c[s]
             /\ \A j \in 1 .. k - 1 : c[(s - j) % n] = c[s]
  IN  (s - k) % n

(***************************************************************************)
(* C15: skipRepeating called with delta = -1 and start index s on an array *)
(* that holds at least two distinct values leaves in *idx the first index  *)
(* met walking backward around the ring from s whose value differs from    *)
(* the value at s.                                                         *)
(***************************************************************************)
C15_FirstDifferentBackward ==
  (prog = "skip_repeating" /\ pc = "done" /\ ~AllEqual(container))
    => idx = FirstDifferentBack(container, skipStartIdx)

(***************************************************************************)
(* C16: skipRepeating (delta = -1) returns on every array of size >= 1     *)
(* and every start index after at most size passes of its loop, arrays of  *)
(* one repeated value included.                                            *)
(***************************************************************************)
C16_SkipRepeatingTerminates ==
  (prog = "skip_repeating")
    => <>(prog = "skip_repeating" /\ pc = "done" /\ iters <= size)

C16_Witness ==
  /\ prog = "skip_repeating" /\ AllEqual(container) /\ size >= 3
  /\ pc = "done" /\ iters = size /\ skipStartIdx # 0

(***************************************************************************)
(* C17: findRampPivotWithDupes is bounded by an explicit maximum-depth     *)
(* guard: every invocation tests the recursion depth against MAX_DEPTH     *)
(* (ending the search in a failure when the test fails), and the depth     *)
(* stays below MAX_DEPTH.                                                  *)
(***************************************************************************)
C17_DepthGuarded ==
  (prog = "pivot_dupes" /\ calls > 0) => (depthGuard /\ depth < MAX_DEPTH)

(***************************************************************************)
(* C18: during findRampStart of either program of src/src/find_pivot.cc    *)
(* (>= locator, findRampPivotWithDupes) on a valid sequence every read of  *)
(* the container uses an index in [0, size): the window bounds stay in     *)
(* [0, size - 1] (mid - 1 does not wrap below 0) and the loop that skips   *)
(* repeated entries never indexes with the sentinel.                       *)
(***************************************************************************)
C18_ReadsInBounds ==
  (prog \in {"pivot_ge", "pivot_dupes"})
    => /\ ~oob
       /\ (pc = "locate" => InBounds(lowIdx) /\ InBounds(highIdx))

====
